---- MODULE Spec2Model ----
(***************************************************************************)
(* Blind-structure generator and chip-distribution solver of the poker     *)
(* tournament server.                                                      *)
(*                                                                         *)
(* A distribution is a function Denoms -> Nat; a denomination that the     *)
(* JavaScript object does not hold (or holds with count 0) has count 0:    *)
(* every read in the source is `distribution[d] || 0`.                     *)
(* Blind amounts that are not integers (currentBB * increaseRate,          *)
(* currentBB / 2) are exact rationals num/den.                             *)
(***************************************************************************)
EXTENDS Integers, Sequences, FiniteSets, TLC

(* ------------------------------ bounds --------------------------------- *)
MaxPlayers == 20
MaxReentries == 1
MaxTarget == 120
MaxBlindStack == 40
MaxBlindDepth == 3
MaxBbaStart == 3

(* --------------------------- configuration ----------------------------- *)
Denoms == {5, 10, 25, 100, 500, 1000}

CHIP_SET == (5 :> 150) @@ (10 :> 100) @@ (25 :> 100) @@ (100 :> 100) @@ (500 :> 25) @@ (1000 :> 25)

Min(a, b) == IF a <= b THEN a ELSE b

Max(a, b) == IF a >= b THEN a ELSE b

Abs(a) == IF a >= 0 THEN a ELSE -a

\* Math.ceil(a / b) for b > 0
CeilDiv(a, b) == -((-a) \div b)

SetMin(S) == CHOOSE x \in S : \A y \in S : x <= y

SetMax(S) == CHOOSE x \in S : \A y \in S : x >= y

RECURSIVE SortDesc(_)
SortDesc(S) == IF S = {} THEN << >> ELSE <<SetMax(S)>> \o SortDesc(S \ {SetMax(S)})

RECURSIVE SortAsc(_)
SortAsc(S) == IF S = {} THEN << >> ELSE <<SetMin(S)>> \o SortAsc(S \ {SetMin(S)})

\* Object.keys(CHIP_SET).map(Number).sort((a, b) => b - a)
getAvailableDenominations == SortDesc(Denoms)

sortedDenomsAsc == SortAsc(Denoms)

sortedDenomsDesc == SortDesc(Denoms)

RECURSIVE gcd(_, _)
gcd(a, b) == IF b = 0 THEN a ELSE gcd(b, a % b)

RECURSIVE GcdFrom(_, _, _)
GcdFrom(seq, i, result) ==
  IF i > Len(seq) THEN result ELSE GcdFrom(seq, i + 1, gcd(result, seq[i]))

getChipBaseUnit ==
  IF Len(getAvailableDenominations) = 0 THEN 1
  ELSE GcdFrom(getAvailableDenominations, 2, getAvailableDenominations[1])

baseUnit == getChipBaseUnit

smallestDenom == SetMin(Denoms)

NoChips == [d \in Denoms |-> 0]

RECURSIVE SumOver(_, _)
SumOver(S, f) ==
  IF S = {} THEN 0 ELSE LET d == CHOOSE x \in S : TRUE IN d * f[d] + SumOver(S \ {d}, f)

\* Object.entries(distribution).reduce((sum, [denom, count]) => sum + denom * count, 0)
DistTotal(dist) == SumOver(Denoms, dist)

(* ------------------- minimum chips for the blinds ---------------------- *)
\* the loop over the larger denominations, largest first
RECURSIVE AmountLarger(_, _, _)
AmountLarger(i, chips, remaining) ==
  IF i > Len(sortedDenomsDesc) \/ remaining <= 0 THEN [chips |-> chips, remaining |-> remaining]
  ELSE LET denom == sortedDenomsDesc[i] IN
       IF denom <= baseUnit THEN AmountLarger(i + 1, chips, remaining)
       ELSE IF remaining >= denom /\ remaining \div denom > 0
            THEN AmountLarger(i + 1, [chips EXCEPT ![denom] = remaining \div denom],
                              remaining - (remaining \div denom) * denom)
            ELSE AmountLarger(i + 1, chips, remaining)

\* mutant: the remainder left after the larger denominations is not covered
calculateMinChipsForAmount_NoCover(amount) ==
  IF amount <= 0 THEN NoChips
  ELSE IF amount % baseUnit = 0 THEN [NoChips EXCEPT ![baseUnit] = amount \div baseUnit]
  ELSE LET baseCount == IF amount >= baseUnit THEN amount \div baseUnit ELSE 0
           first == [NoChips EXCEPT ![baseUnit] = baseCount]
           r == AmountLarger(1, first, amount - baseCount * baseUnit)
       IN r.chips

calculateMinChipsForAmount(amount) ==
  IF amount <= 0 THEN NoChips
  ELSE IF amount % baseUnit = 0 THEN [NoChips EXCEPT ![baseUnit] = amount \div baseUnit]
  ELSE LET baseCount == IF amount >= baseUnit THEN amount \div baseUnit ELSE 0
           first == [NoChips EXCEPT ![baseUnit] = baseCount]
           r == AmountLarger(1, first, amount - baseCount * baseUnit)
       IN IF r.remaining > 0
          THEN [r.chips EXCEPT ![baseUnit] = @ + CeilDiv(r.remaining, baseUnit)]
          ELSE r.chips

MaxChips(a, b) == [d \in Denoms |-> Max(a[d], b[d])]

LevelChips(level) ==
  MaxChips(IF level.sb > 0 THEN calculateMinChipsForAmount(level.sb) ELSE NoChips,
    MaxChips(IF level.bb > 0 THEN calculateMinChipsForAmount(level.bb) ELSE NoChips,
             IF level.ante > 0 THEN calculateMinChipsForAmount(level.ante) ELSE NoChips))

RECURSIVE EarlyMax(_, _, _)
EarlyMax(earlyLevels, i, acc) ==
  IF i > Len(earlyLevels) THEN acc
  ELSE EarlyMax(earlyLevels, i + 1, MaxChips(acc, LevelChips(earlyLevels[i])))

EarlyLevelCount == 12

bufferMultiplier == 6

SmallChipLimit == 100

NeedsSmallest(level) ==
  \/ level.sb > 0 /\ level.sb % smallestDenom = 0 /\ level.sb < smallestDenom * 10
  \/ level.bb > 0 /\ level.bb % smallestDenom = 0 /\ level.bb < smallestDenom * 10
  \/ level.ante > 0 /\ level.ante % smallestDenom = 0 /\ level.ante < smallestDenom * 10

\* the first early level that needs the smallest denomination, 0 when none does
RECURSIVE FirstNeedsSmallest(_, _)
FirstNeedsSmallest(earlyLevels, i) ==
  IF i > Len(earlyLevels) THEN 0
  ELSE IF NeedsSmallest(earlyLevels[i]) THEN i ELSE FirstNeedsSmallest(earlyLevels, i + 1)

\* mutant: every level is inspected
calculateMinChipsForBlinds_AllLevels(levels) ==
  IF Len(levels) = 0 THEN NoChips
  ELSE LET raw == EarlyMax(levels, 1, NoChips)
       IN [d \in Denoms |->
             IF raw[d] # 0 /\ d <= SmallChipLimit THEN raw[d] * bufferMultiplier ELSE raw[d]]

\* levels = << >> stands for a null structure and for one without levels
calculateMinChipsForBlinds(levels) ==
  IF Len(levels) = 0 THEN NoChips
  ELSE LET earlyLevels == SubSeq(levels, 1, Min(EarlyLevelCount, Len(levels)))
           raw == EarlyMax(earlyLevels, 1, NoChips)
           buffered == [d \in Denoms |->
                          IF raw[d] # 0 /\ d <= SmallChipLimit THEN raw[d] * bufferMultiplier
                          ELSE raw[d]]
           k == FirstNeedsSmallest(earlyLevels, 1)
       IN IF baseUnit = smallestDenom /\ buffered[smallestDenom] = 0 /\ k > 0
          THEN [buffered EXCEPT ![smallestDenom] =
                  Max(0, CeilDiv(IF earlyLevels[k].bb # 0 THEN earlyLevels[k].bb
                                 ELSE smallestDenom * 2, smallestDenom) * bufferMultiplier)]
          ELSE buffered

(* ------------------------ capacity and floors -------------------------- *)
MaxEntries(numPlayers, maxReentries) == numPlayers * (maxReentries + 1)

\* mutant: the per-entry share rounded up instead of down
MaxChipsPerEntry_RoundUp(maxPossibleEntries) ==
  [d \in Denoms |-> CeilDiv(CHIP_SET[d], maxPossibleEntries)]

\* Step 1: maxChipsPerEntry[denom] = Math.floor(CHIP_SET[denom] / maxPossibleEntries)
MaxChipsPerEntry(maxPossibleEntries) ==
  [d \in Denoms |-> CHIP_SET[d] \div maxPossibleEntries]

MinBaseUnitsDefault == 10

\* Step 2: the estimator's floor, plus the default floor for the base unit
MinChipsFloor(levels, cap) ==
  LET m == calculateMinChipsForBlinds(levels) IN
  IF m[baseUnit] = 0 /\ Min(MinBaseUnitsDefault, cap[baseUnit]) > 0
  THEN [m EXCEPT ![baseUnit] = Min(MinBaseUnitsDefault, cap[baseUnit])]
  ELSE m

(* ------------------------- Step 3 and Step 4 --------------------------- *)
\* mutant: the largest denomination is not seeded
SeedDistribution_SkipsLargest(cap) ==
  [d \in Denoms |-> IF cap[d] > 0 /\ d # sortedDenomsDesc[1] THEN cap[d] ELSE 0]

\* Step 3: start with max chips per entry for all denominations
SeedDistribution(cap) == [d \in Denoms |-> IF cap[d] > 0 THEN cap[d] ELSE 0]

\* Step 4: raise a denomination toward its floor, capped at maxChipsPerEntry
TopUpDistribution(dist, cap, mn) ==
  [d \in Denoms |->
     IF mn[d] > dist[d]
     THEN LET chipsToAdd == Min(mn[d] - dist[d], cap[d] - dist[d])
          IN IF chipsToAdd > 0 THEN dist[d] + chipsToAdd ELSE dist[d]
     ELSE dist[d]]

(* ------------------- Step 5, over target: reduce ----------------------- *)
preserveForSwaps == 1

\* sortedDenomsAsc.filter(d => d % baseUnit === 0 && d !== baseUnit).sort((a, b) => b - a)
multiplesOfBaseUnit == SortDesc({d \in Denoms : d % baseUnit = 0 /\ d # baseUnit})

\* one pass over `seq` collecting whole chips to remove; acc = [rm, rem]
RECURSIVE CollectRemovals(_, _, _, _, _)
CollectRemovals(seq, i, dist, mn, acc) ==
  IF i > Len(seq) \/ acc.rem <= 0 THEN acc
  ELSE LET denom == seq[i]
           canRemove == Max(0, dist[denom] - Max(mn[denom], preserveForSwaps) - acc.rm[denom])
           count == Min(canRemove, acc.rem \div denom)
       IN IF dist[denom] = 0 THEN CollectRemovals(seq, i + 1, dist, mn, acc)
          ELSE IF canRemove > 0 /\ acc.rem >= denom /\ count > 0
               THEN CollectRemovals(seq, i + 1, dist, mn,
                      [rm |-> [acc.rm EXCEPT ![denom] = @ + count],
                       rem |-> acc.rem - count * denom])
               ELSE CollectRemovals(seq, i + 1, dist, mn, acc)

\* largest multiples first, then the multiples not yet touched, smallest first
ChipsToRemove(dist, mn, excess) ==
  LET first == CollectRemovals(multiplesOfBaseUnit, 1, dist, mn, [rm |-> NoChips, rem |-> excess])
      smallerMultiples == SortAsc({d \in Denoms : d % baseUnit = 0 /\ d # baseUnit
                                                    /\ first.rm[d] = 0})
  IN IF first.rem > 0 THEN CollectRemovals(smallerMultiples, 1, dist, mn, first) ELSE first

\* remove one chip of the first (largest) multiple held above its floor
RECURSIVE RemoveOneMultiple(_, _, _, _)
RemoveOneMultiple(i, s, mn, target) ==
  IF i > Len(multiplesOfBaseUnit) \/ s.rem <= 0 THEN s
  ELSE LET denom == multiplesOfBaseUnit[i] IN
       IF s.dist[denom] = 0 THEN RemoveOneMultiple(i + 1, s, mn, target)
       ELSE IF s.dist[denom] > mn[denom]
            THEN [dist |-> [s.dist EXCEPT ![denom] = @ - 1],
                  total |-> s.total - denom,
                  rem |-> target - (s.total - denom)]
            ELSE RemoveOneMultiple(i + 1, s, mn, target)

\* larger remainder: standard removal, largest first
RECURSIVE StandardRemoval(_, _, _)
StandardRemoval(i, s, mn) ==
  IF i > Len(sortedDenomsDesc) \/ s.rem <= 0 THEN s
  ELSE LET denom == sortedDenomsDesc[i]
           canRemove == s.dist[denom] - mn[denom]
           idealChipsToRemove == s.rem \div denom
           chipsToRemove == Min(canRemove, IF idealChipsToRemove > 0 THEN idealChipsToRemove
                                           ELSE CeilDiv(s.rem, denom))
       IN IF s.dist[denom] = 0 THEN StandardRemoval(i + 1, s, mn)
          ELSE IF canRemove > 0 /\ chipsToRemove > 0
               THEN StandardRemoval(i + 1,
                      [dist |-> [s.dist EXCEPT ![denom] = @ - chipsToRemove],
                       total |-> s.total - chipsToRemove * denom,
                       rem |-> s.rem - chipsToRemove * denom], mn)
               ELSE StandardRemoval(i + 1, s, mn)

SmallRemainderFactor == 5

\* mutant: the base-unit removal does not keep the floor
ReduceRemainder_IgnoresFloor(s, mn, target) ==
  IF s.rem <= 0 THEN s
  ELSE IF s.rem <= baseUnit * SmallRemainderFactor
  THEN LET canRemove == s.dist[baseUnit]
           needed == CeilDiv(s.rem, baseUnit)
       IN IF canRemove >= needed
          THEN [dist |-> [s.dist EXCEPT ![baseUnit] = @ - needed],
                total |-> s.total - needed * baseUnit,
                rem |-> 0]
          ELSE RemoveOneMultiple(1, s, mn, target)
  ELSE StandardRemoval(1, s, mn)

\* the remainder that whole multiples could not remove
ReduceRemainder(s, mn, target) ==
  IF s.rem <= 0 THEN s
  ELSE IF s.rem <= baseUnit * SmallRemainderFactor
  THEN LET canRemove == s.dist[baseUnit] - mn[baseUnit]
           needed == CeilDiv(s.rem, baseUnit)
       IN IF canRemove >= needed
          THEN [dist |-> [s.dist EXCEPT ![baseUnit] = @ - needed],
                total |-> s.total - needed * baseUnit,
                rem |-> 0]
          ELSE RemoveOneMultiple(1, s, mn, target)
  ELSE StandardRemoval(1, s, mn)

\* the whole `if (gap < 0)` block; the result's total is totalDistributed
ReducePhase(dist, total, mn, target) ==
  LET excess == total - target
      c == ChipsToRemove(dist, mn, excess)
      applied == [dist |-> [d \in Denoms |-> dist[d] - c.rm[d]],
                  total |-> total - SumOver(Denoms, c.rm),
                  rem |-> c.rem]
  IN ReduceRemainder(applied, mn, target)

(* -------------------- Step 5, under target: grow ------------------------ *)
maxIterations == 200

\* mutant: the chips needed for a swap rounded down instead of up
RECURSIVE SwapRemovals_RoundDown(_, _, _, _, _, _)
SwapRemovals_RoundDown(i, denom, excess, dist, mn, acc) ==
  IF i > Len(sortedDenomsAsc) THEN acc
  ELSE LET smallerDenom == sortedDenomsAsc[i]
           canRemoveFromThis == Max(0, dist[smallerDenom] - mn[smallerDenom])
           needed == (excess - acc.canRemove) \div smallerDenom
           toRemove == Min(canRemoveFromThis, needed)
       IN IF smallerDenom >= denom \/ excess <= acc.canRemove THEN acc
          ELSE IF canRemoveFromThis > 0 /\ toRemove > 0
               THEN SwapRemovals_RoundDown(i + 1, denom, excess, dist, mn,
                      [rm |-> [acc.rm EXCEPT ![smallerDenom] = toRemove],
                       canRemove |-> acc.canRemove + toRemove * smallerDenom])
               ELSE SwapRemovals_RoundDown(i + 1, denom, excess, dist, mn, acc)

\* smaller chips to take out for a swap, smallest first; acc = [rm, canRemove]
RECURSIVE SwapRemovals(_, _, _, _, _, _)
SwapRemovals(i, denom, excess, dist, mn, acc) ==
  IF i > Len(sortedDenomsAsc) THEN acc
  ELSE LET smallerDenom == sortedDenomsAsc[i]
           canRemoveFromThis == Max(0, dist[smallerDenom] - mn[smallerDenom])
           needed == CeilDiv(excess - acc.canRemove, smallerDenom)
           toRemove == Min(canRemoveFromThis, needed)
       IN IF smallerDenom >= denom \/ excess <= acc.canRemove THEN acc
          ELSE IF canRemoveFromThis > 0 /\ toRemove > 0
               THEN SwapRemovals(i + 1, denom, excess, dist, mn,
                      [rm |-> [acc.rm EXCEPT ![smallerDenom] = toRemove],
                       canRemove |-> acc.canRemove + toRemove * smallerDenom])
               ELSE SwapRemovals(i + 1, denom, excess, dist, mn, acc)

\* body of `for (const denom of sortedDenomsDesc)` for one denom, gap > 0;
\* s = [dist, total, gap, prog, move]
GrowDenomStep(s, denom, cap, mn, target) ==
  LET chipsAvailable == cap[denom] - s.dist[denom]
      maxToAdd == s.gap \div denom
      chipsToAdd == Min(chipsAvailable, maxToAdd)
      excess == s.total + denom - target
      sw == SwapRemovals(1, denom, excess, s.dist, mn, [rm |-> NoChips, canRemove |-> 0])
  IN IF chipsAvailable <= 0 THEN [s EXCEPT !.move = "none"]
     ELSE IF maxToAdd > 0 /\ s.total + chipsToAdd * denom <= target
     THEN [dist |-> [s.dist EXCEPT ![denom] = @ + chipsToAdd],
           total |-> s.total + chipsToAdd * denom,
           gap |-> target - (s.total + chipsToAdd * denom),
           prog |-> TRUE, move |-> "direct"]
     ELSE IF s.total + denom <= target
     THEN [dist |-> [s.dist EXCEPT ![denom] = @ + 1],
           total |-> s.total + denom,
           gap |-> target - (s.total + denom),
           prog |-> TRUE, move |-> "single"]
     ELSE IF sw.canRemove >= excess
     THEN [dist |-> [d \in Denoms |-> IF d = denom THEN s.dist[d] + 1 ELSE s.dist[d] - sw.rm[d]],
           total |-> s.total - SumOver(Denoms, sw.rm) + denom,
           gap |-> target - (s.total - SumOver(Denoms, sw.rm) + denom),
           prog |-> TRUE, move |-> "swap"]
     ELSE [s EXCEPT !.move = "none"]

\* `if (!madeProgress)`: add as many of the smallest denomination that fits
RECURSIVE AddSmaller(_, _, _, _)
AddSmaller(i, s, cap, target) ==
  IF i > Len(sortedDenomsAsc) \/ s.gap <= 0 THEN s
  ELSE LET denom == sortedDenomsAsc[i]
           chipsAvailable == cap[denom] - s.dist[denom]
           maxToAdd == s.gap \div denom
           chipsToAdd == Min(chipsAvailable, maxToAdd)
       IN IF chipsAvailable > 0 /\ maxToAdd > 0 /\ chipsToAdd > 0
          THEN [dist |-> [s.dist EXCEPT ![denom] = @ + chipsToAdd],
                total |-> s.total + chipsToAdd * denom,
                gap |-> target - (s.total + chipsToAdd * denom),
                prog |-> TRUE, move |-> "smaller"]
          ELSE AddSmaller(i + 1, s, cap, target)

\* remove one larger chip, add base units worth the chip plus the gap
RECURSIVE BaseUnitSwap(_, _, _, _)
BaseUnitSwap(i, s, cap, target) ==
  IF i > Len(sortedDenomsAsc) THEN s
  ELSE LET denom == sortedDenomsAsc[i]
           baseUnitsAvailable == cap[baseUnit] - s.dist[baseUnit]
           baseUnitsNeeded == CeilDiv(denom + s.gap, baseUnit)
       IN IF denom <= baseUnit THEN BaseUnitSwap(i + 1, s, cap, target)
          ELSE IF s.gap <= 0 THEN s
          ELSE IF s.dist[denom] > 0 /\ baseUnitsAvailable >= baseUnitsNeeded
               THEN [dist |-> [d \in Denoms |->
                                 IF d = denom THEN s.dist[d] - 1
                                 ELSE IF d = baseUnit THEN s.dist[d] + baseUnitsNeeded
                                 ELSE s.dist[d]],
                     total |-> s.total - denom + baseUnitsNeeded * baseUnit,
                     gap |-> target - (s.total - denom + baseUnitsNeeded * baseUnit),
                     prog |-> TRUE, move |-> "baseswap"]
               ELSE BaseUnitSwap(i + 1, s, cap, target)

\* the tail of one pass of the while loop, after the loop over sortedDenomsDesc
GrowPassTail(s, cap, target) ==
  LET a == IF ~s.prog THEN AddSmaller(1, s, cap, target) ELSE s
  IN IF ~a.prog /\ a.gap > 0 /\ a.gap < baseUnit * 2 THEN BaseUnitSwap(1, a, cap, target) ELSE a

(* ------------------- final verification and cleanup -------------------- *)
\* mutant: the final removal ignores the minimum required for the blinds
RECURSIVE FinalRemoval_NoFloor(_, _, _)
FinalRemoval_NoFloor(i, s, mn) ==
  IF i > Len(sortedDenomsDesc) \/ s.excess <= 0 THEN s
  ELSE LET denom == sortedDenomsDesc[i]
           canRemove == s.dist[denom]
           chipsToRemove == Min(canRemove, CeilDiv(s.excess, denom))
       IN IF s.dist[denom] = 0 THEN FinalRemoval_NoFloor(i + 1, s, mn)
          ELSE IF canRemove > 0 /\ chipsToRemove > 0
               THEN FinalRemoval_NoFloor(i + 1,
                      [dist |-> [s.dist EXCEPT ![denom] = @ - chipsToRemove],
                       excess |-> s.excess - chipsToRemove * denom], mn)
               ELSE FinalRemoval_NoFloor(i + 1, s, mn)

\* `if (totalDistributed > targetStack)`: remove excess from largest; s = [dist, excess]
RECURSIVE FinalRemoval(_, _, _)
FinalRemoval(i, s, mn) ==
  IF i > Len(sortedDenomsDesc) \/ s.excess <= 0 THEN s
  ELSE LET denom == sortedDenomsDesc[i]
           canRemove == s.dist[denom] - mn[denom]
           chipsToRemove == Min(canRemove, CeilDiv(s.excess, denom))
       IN IF s.dist[denom] = 0 THEN FinalRemoval(i + 1, s, mn)
          ELSE IF canRemove > 0 /\ chipsToRemove > 0
               THEN FinalRemoval(i + 1, [dist |-> [s.dist EXCEPT ![denom] = @ - chipsToRemove],
                                         excess |-> s.excess - chipsToRemove * denom], mn)
               ELSE FinalRemoval(i + 1, s, mn)

FinalReduce(dist, mn, target) ==
  IF DistTotal(dist) > target
  THEN FinalRemoval(1, [dist |-> dist, excess |-> DistTotal(dist) - target], mn).dist
  ELSE dist

\* gap of one base unit, no base unit left: trade one chip worth 2 base units;
\* s = [dist, total, finalGap]
RECURSIVE DoubleUnitSwap(_, _, _, _, _, _)
DoubleUnitSwap(i, s, alreadyAllocated, cap, mn, target) ==
  IF i > Len(sortedDenomsAsc) THEN s
  ELSE LET denom == sortedDenomsAsc[i]
           baseUnitsToAdd == denom \div baseUnit
           canAdd == Min(baseUnitsToAdd, cap[baseUnit] - alreadyAllocated)
       IN IF denom = baseUnit \/ denom # baseUnit * 2
          THEN DoubleUnitSwap(i + 1, s, alreadyAllocated, cap, mn, target)
          ELSE IF s.dist[denom] > 0 /\ s.dist[denom] > mn[denom] /\ canAdd >= baseUnitsToAdd
               THEN [dist |-> [d \in Denoms |->
                                 IF d = denom THEN s.dist[d] - 1
                                 ELSE IF d = baseUnit THEN s.dist[d] + baseUnitsToAdd
                                 ELSE s.dist[d]],
                     total |-> s.total - denom + baseUnitsToAdd * baseUnit,
                     finalGap |-> target - (s.total - denom + baseUnitsToAdd * baseUnit)]
               ELSE DoubleUnitSwap(i + 1, s, alreadyAllocated, cap, mn, target)

\* `if (finalGap > 0)`: one more time with any available chips, smallest first
RECURSIVE FinalFill(_, _, _, _)
FinalFill(i, s, cap, target) ==
  IF i > Len(sortedDenomsAsc) \/ s.finalGap <= 0 THEN s
  ELSE LET denom == sortedDenomsAsc[i]
           chipsAvailable == cap[denom] - s.dist[denom]
           chipsToAdd == Min(chipsAvailable, s.finalGap \div denom)
       IN IF chipsAvailable > 0 /\ s.finalGap >= denom /\ chipsToAdd > 0
          THEN FinalFill(i + 1, [dist |-> [s.dist EXCEPT ![denom] = @ + chipsToAdd],
                                 total |-> s.total + chipsToAdd * denom,
                                 finalGap |-> target - (s.total + chipsToAdd * denom)], cap, target)
          ELSE FinalFill(i + 1, s, cap, target)

FinalGapFactor == 5

\* final pass: try to fill any remaining small gap
FinalTopUp(dist, cap, mn, target) ==
  LET total == DistTotal(dist)
      finalGap == target - total
      alreadyAllocated == dist[baseUnit]
      chipsAvailable == cap[baseUnit] - alreadyAllocated
      chipsNeeded == CeilDiv(finalGap, baseUnit)
      s0 == [dist |-> dist, total |-> total, finalGap |-> finalGap]
      s1 == IF chipsAvailable >= chipsNeeded
            THEN [dist |-> [dist EXCEPT ![baseUnit] = @ + chipsNeeded],
                  total |-> total + chipsNeeded * baseUnit,
                  finalGap |-> target - (total + chipsNeeded * baseUnit)]
            ELSE IF chipsAvailable = 0 /\ finalGap = baseUnit
            THEN DoubleUnitSwap(1, s0, alreadyAllocated, cap, mn, target)
            ELSE s0
      s2 == IF s1.finalGap > 0 THEN FinalFill(1, s1, cap, target) ELSE s1
  IN IF finalGap > 0 /\ finalGap < baseUnit * FinalGapFactor THEN s2.dist ELSE dist

(* ----------------------- starting-stack selector ----------------------- *)
StackRounding == 10

CleanIncrement == 100

calculateMaxAchievableStack(maxPlayers, maxReentries) ==
  LET maxStack == SumOver(Denoms, MaxChipsPerEntry(MaxEntries(maxPlayers, maxReentries)))
  IN (maxStack \div StackRounding) * StackRounding

calculateStartingStack(maxPlayers, maxReentries) ==
  LET maxAchievableStack == calculateMaxAchievableStack(maxPlayers, maxReentries)
      totalChipValue == SumOver(Denoms, CHIP_SET)
      theoreticalPerEntry == totalChipValue \div MaxEntries(maxPlayers, maxReentries)
      perEntry == Min(maxAchievableStack, theoreticalPerEntry)
      roundedStack == (perEntry \div CleanIncrement) * CleanIncrement
      finalStack == Min(roundedStack, maxAchievableStack)
  IN Max(smallestDenom, finalStack)

\* a JS number: an integer or Infinity
Finite(n) == [finite |-> TRUE, value |-> n]

Infinity == [finite |-> FALSE, value |-> 0]

\* the number calculateStartingStack returns. With maxPossibleEntries = 0 every
\* quotient is Infinity; Math.floor(Infinity / 10) * 10, Math.min(Infinity, Infinity)
\* and Math.max(smallestDenom, Infinity) are Infinity. Otherwise the quotients are
\* integers after Math.floor, also for a negative number of entries.
SelectorResult(maxPlayers, maxReentries) ==
  IF MaxEntries(maxPlayers, maxReentries) = 0 THEN Infinity
  ELSE Finite(calculateStartingStack(maxPlayers, maxReentries))

(* ----------------------- blind-structure generator --------------------- *)
\* a blind amount is the rational n / den, den > 0
\* the first denomination, largest first, whose nearest multiple is within 20% of
\* the value; 0 when there is none
RECURSIVE NiceCandidate(_, _, _)
NiceCandidate(i, n, den) ==
  IF i > Len(sortedDenomsDesc) THEN 0
  ELSE LET denom == sortedDenomsDesc[i]
           lowerMultiple == (n \div (den * denom)) * denom
           upperMultiple == CeilDiv(n, den * denom) * denom
           candidate == IF 2 * n < (lowerMultiple + upperMultiple) * den THEN lowerMultiple
                        ELSE upperMultiple
       IN IF denom * den <= n /\ 5 * Abs(candidate * den - n) <= n THEN candidate
          ELSE NiceCandidate(i + 1, n, den)

\* mutant: the value is rounded to an integer, not to the base unit
roundToValidBlind_ToInteger(n, den) ==
  IF n = 0 THEN 0
  ELSE LET toInteger == (2 * n + den) \div (2 * den)
           nice == NiceCandidate(1, n, den)
           rounded == IF nice # 0 THEN nice ELSE toInteger
       IN IF rounded > 0 /\ rounded < smallestDenom THEN smallestDenom ELSE rounded

\* roundToValidBlind(n / den) for n >= 0; Math.round(x) is floor(x + 1/2)
roundToValidBlind(n, den) ==
  IF n = 0 THEN 0
  ELSE LET toBase == ((2 * n + baseUnit * den) \div (2 * baseUnit * den)) * baseUnit
           nice == NiceCandidate(1, n, den)
           rounded == IF nice # 0 THEN nice ELSE toBase
       IN IF rounded > 0 /\ rounded < smallestDenom THEN smallestDenom ELSE rounded

Speeds == {"turbo", "normal", "slow", "other"}

\* progressionFactors[speed] || progressionFactors.normal
DefaultRate(speed) ==
  IF speed = "turbo" THEN [num |-> 7, den |-> 5]
  ELSE IF speed = "slow" THEN [num |-> 6, den |-> 5]
  ELSE [num |-> 5, den |-> 4]

NotANumber == [num |-> 0, den |-> 0]

\* mutant: only a rate below 1 is replaced
EffectiveRate_AcceptsOne(rate, speed) ==
  IF rate = NotANumber \/ rate.num < rate.den THEN DefaultRate(speed) ELSE rate

\* parseFloat(blindIncreaseRate), then the fallback for NaN or a rate <= 1
EffectiveRate(rate, speed) ==
  IF rate = NotANumber \/ rate.num <= rate.den THEN DefaultRate(speed) ELSE rate

\* mutant: the rounded blind is kept even when it does not exceed the previous one
LevelStep_NoForcedIncrease(g, rate, bbaStartLevel) ==
  LET currentBB == roundToValidBlind(g.cur.n, g.cur.den)
      sb == roundToValidBlind(currentBB, 2)
      levelNumber == g.level + 1
      ante == IF levelNumber >= bbaStartLevel THEN currentBB ELSE 0
  IN [levels |-> Append(g.levels, [sb |-> sb, bb |-> currentBB, ante |-> ante]),
      cur |-> [n |-> currentBB * rate.num, den |-> rate.den],
      previousBB |-> currentBB,
      level |-> g.level + 1]

\* mutant: the ante starts one level late (the 0-based level compared with bbaStartLevel)
LevelStep_AnteOffByOne(g, rate, bbaStartLevel) ==
  LET rounded == roundToValidBlind(g.cur.n, g.cur.den)
      currentBB == IF g.level > 0 /\ rounded <= g.previousBB
                   THEN (g.previousBB \div baseUnit) * baseUnit + baseUnit
                   ELSE rounded
      sb == roundToValidBlind(currentBB, 2)
      ante == IF g.level >= bbaStartLevel THEN currentBB ELSE 0
  IN [levels |-> Append(g.levels, [sb |-> sb, bb |-> currentBB, ante |-> ante]),
      cur |-> [n |-> currentBB * rate.num, den |-> rate.den],
      previousBB |-> currentBB,
      level |-> g.level + 1]

\* one iteration of `while (currentBB < maxBlind)`;
\* g = [levels, cur (= currentBB as [n, den]), previousBB, level]
LevelStep(g, rate, bbaStartLevel) ==
  LET rounded == roundToValidBlind(g.cur.n, g.cur.den)
      currentBB == IF g.level > 0 /\ rounded <= g.previousBB
                   THEN (g.previousBB \div baseUnit) * baseUnit + baseUnit
                   ELSE rounded
      sb == roundToValidBlind(currentBB, 2)
      levelNumber == g.level + 1
      ante == IF levelNumber >= bbaStartLevel THEN currentBB ELSE 0
  IN [levels |-> Append(g.levels, [sb |-> sb, bb |-> currentBB, ante |-> ante]),
      cur |-> [n |-> currentBB * rate.num, den |-> rate.den],
      previousBB |-> currentBB,
      level |-> g.level + 1]

\* mutant: the depth counted in small blinds
GenStart_DepthInSmallBlinds(startingStack, startingBlindDepth) ==
  [levels |-> << >>, cur |-> [n |-> startingStack \div (2 * startingBlindDepth), den |-> 1],
   previousBB |-> 0, level |-> 0]

GenStart(startingStack, startingBlindDepth) ==
  [levels |-> << >>, cur |-> [n |-> startingStack \div startingBlindDepth, den |-> 1],
   previousBB |-> 0, level |-> 0]

\* currentBB < maxBlind, maxBlind = startingStack * 2
LoopCondition(g, startingStack) == g.cur.n < startingStack * 2 * g.cur.den

RECURSIVE GenLoop(_, _, _, _)
GenLoop(g, startingStack, rate, bbaStartLevel) ==
  IF LoopCondition(g, startingStack)
  THEN GenLoop(LevelStep(g, rate, bbaStartLevel), startingStack, rate, bbaStartLevel)
  ELSE g

generateBlindStructure(startingStack, speed, startingBlindDepth, blindIncreaseRate, bbaStartLevel) ==
  GenLoop(GenStart(startingStack, startingBlindDepth), startingStack,
          EffectiveRate(blindIncreaseRate, speed), bbaStartLevel).levels

(* ============================== state ================================== *)
VARIABLES
  pc,                 \* position in calculateChipDistribution
  targetStack, numPlayers, maxReentries, blindLevels,   \* its arguments
  maxChipsPerEntry, minChipsForBlinds,                  \* Step 1, Step 2
  distribution, totalDistributed, gap,
  iterations, madeProgress, gapBefore,                  \* the while loop of the grow phase
  denomIdx,           \* position in `for (const denom of sortedDenomsDesc)`
  lastMove,           \* what the last step of the grow phase did
  gpc,                \* position in generateBlindStructure
  startingStack, speed, startingBlindDepth, blindIncreaseRate, bbaStartLevel,   \* its arguments
  increaseRate,       \* the rate after validation
  gen,                \* levels, currentBB, previousBB, level
  spc,                \* position in calculateStartingStack
  selPlayers, selReentries,     \* its arguments maxPlayers, maxReentries
  selStack,           \* the number it returns
  history,            \* the calls that have returned: function, arguments, result
  epc,                \* position in calculateMinChipsForAmount / calculateMinChipsForBlinds
  estInput,           \* the amount or the blind structure passed
  estResult,          \* the chips returned
  tournament,         \* the row of the tournaments table
  entries,            \* the entries table: per player_name, the entry_number of each row
  now,                \* the database clock, in seconds
  entryReq,           \* POST /api/tournaments/:id/entries handlers in flight
  getReq,             \* GET /api/tournaments/:id handlers in flight
  opReq               \* the PATCH handler in flight (status, skip-break, next-level)

solverVars == <<pc, targetStack, numPlayers, maxReentries, blindLevels, maxChipsPerEntry,
                minChipsForBlinds, distribution, totalDistributed, gap, iterations,
                madeProgress, gapBefore, denomIdx, lastMove>>

genVars == <<gpc, startingStack, speed, startingBlindDepth, blindIncreaseRate, bbaStartLevel,
             increaseRate, gen>>

selectorVars == <<spc, selPlayers, selReentries, selStack>>

estimatorVars == <<epc, estInput, estResult>>

serverVars == <<tournament, entries, now, entryReq, getReq, opReq>>

otherVars == <<selectorVars, history, estimatorVars, serverVars>>

vars == <<solverVars, genVars, otherVars>>

(* ------------------------------ requests ------------------------------- *)
DefaultBlindDepth == 50

DefaultBbaStart == 6

DefaultIncreaseRate == [num |-> 5, den |-> 4]

\* the structure of the solver's test suite
blindStructureWith5s ==
  << [sb |-> 10, bb |-> 20, ante |-> 0], [sb |-> 10, bb |-> 25, ante |-> 0],
     [sb |-> 15, bb |-> 30, ante |-> 30], [sb |-> 20, bb |-> 40, ante |-> 40],
     [sb |-> 25, bb |-> 50, ante |-> 50] >>

\* POST /api/tournaments/preview: the stack is selected, the structure generated
PreviewStructure(players, reentries) ==
  generateBlindStructure(calculateStartingStack(players, reentries), "normal",
                         DefaultBlindDepth, DefaultIncreaseRate, DefaultBbaStart)

PreviewCalls ==
  { [stack |-> calculateStartingStack(p, r), players |-> p, reentries |-> r, levels |-> l] :
      <<p, r, l>> \in { <<p, r, l>> \in (1..MaxPlayers) \X (0..MaxReentries) \X {0, 1} : TRUE } }

\* the calls of the test suite
SuiteCalls ==
  { [stack |-> 2300, players |-> 16, reentries |-> 0, levels |-> 0],
    [stack |-> 2300, players |-> 10, reentries |-> 1, levels |-> 0],
    [stack |-> 10000, players |-> 8, reentries |-> 0, levels |-> 0],
    [stack |-> 5000, players |-> 20, reentries |-> 0, levels |-> 0],
    [stack |-> 2300, players |-> 16, reentries |-> 0, levels |-> 2] }

\* any caller-chosen stack, without a structure or with the suite's
DirectCalls ==
  { [stack |-> t, players |-> p, reentries |-> r, levels |-> l] :
      <<t, p, r, l>> \in { <<t, p, r, l>> \in (0..MaxTarget) \X (1..MaxPlayers) \X (0..MaxReentries) \X {0, 2} : TRUE } }

\* targets at and above what the chip set can give one entry
CapacityCalls ==
  { [stack |-> SumOver(Denoms, MaxChipsPerEntry(MaxEntries(p, r))) + over, players |-> p, reentries |-> r, levels |-> l] :
      <<over, p, r, l>> \in { <<over, p, r, l>> \in {0, 1, 5} \X (1..MaxPlayers) \X (0..MaxReentries) \X {0, 2} : TRUE } }

\* levels: 0 = null, 1 = the structure generated for the selected stack, 2 = the suite's
LevelsOf(call) ==
  IF call.levels = 0 THEN << >>
  ELSE IF call.levels = 1 THEN PreviewStructure(call.players, call.reentries)
  ELSE blindStructureWith5s

(* ------------------------------ the server ------------------------------ *)
\* a NULL column: timestamps and levels are never negative
NULL == -1

PlayerNames == {"ann", "bob"}

MaxEntryClients == 2

EntryClients == 1..MaxEntryClients

Pollers == {"host", "public"}

\* POST /api/tournaments: the row inserted, the columns left to their defaults
\* included; pause_time is written by the handlers and never read
CreateTournament(max_players, max_reentries_, speed_, depth, rate, bba) ==
  [max_players |-> max_players,
   max_reentries |-> max_reentries_,
   speed |-> speed_,
   starting_stack |-> calculateStartingStack(max_players, max_reentries_),
   starting_blind_depth |-> depth,
   blind_increase_rate |-> rate,
   bba_start_level |-> bba,
   status |-> "pending",
   current_level |-> 1,
   level_start_time |-> NULL,
   elapsed_before_pause |-> 0,
   break_start_time |-> NULL,
   level_elapsed_before_break |-> 0,
   break_completed_level |-> NULL]

DefaultTournament ==
  CreateTournament(10, 1, "normal", DefaultBlindDepth, DefaultIncreaseRate, DefaultBbaStart)

IdleEntryReq == [pc |-> "idle", player_name |-> "ann", existingEntries |-> 0]

IdleGetReq ==
  [pc |-> "idle", tournament |-> DefaultTournament, isBreak |-> FALSE, timeRemaining |-> 0,
   levelElapsed |-> 0]

IdleOpReq == [pc |-> "idle", status |-> "pending", current |-> DefaultTournament]

ServerIdle ==
  /\ tournament = DefaultTournament
  /\ entries = [n \in PlayerNames |-> << >>]
  /\ now = 0
  /\ entryReq = [c \in EntryClients |-> IdleEntryReq]
  /\ getReq = [p \in Pollers |-> IdleGetReq]
  /\ opReq = IdleOpReq

GenIdle ==
  /\ gpc = "idle"
  /\ startingStack = 0
  /\ speed = "normal"
  /\ startingBlindDepth = DefaultBlindDepth
  /\ blindIncreaseRate = DefaultIncreaseRate
  /\ bbaStartLevel = DefaultBbaStart
  /\ increaseRate = DefaultIncreaseRate
  /\ gen = GenStart(0, DefaultBlindDepth)

SelectorIdle ==
  /\ spc = "idle"
  /\ selPlayers = 1
  /\ selReentries = 0
  /\ selStack = Finite(0)

EstimatorIdle ==
  /\ epc = "idle"
  /\ estInput = [kind |-> "amount", amount |-> 0, levels |-> << >>]
  /\ estResult = NoChips

SolverIdle ==
  /\ pc = "idle"
  /\ targetStack = 0
  /\ numPlayers = 1
  /\ maxReentries = 0
  /\ blindLevels = << >>
  /\ maxChipsPerEntry = NoChips
  /\ minChipsForBlinds = NoChips
  /\ distribution = NoChips
  /\ totalDistributed = 0
  /\ gap = 0
  /\ iterations = 0
  /\ madeProgress = FALSE
  /\ gapBefore = 0
  /\ denomIdx = 0
  /\ lastMove = "none"

Init ==
  /\ \E call \in PreviewCalls \cup SuiteCalls \cup DirectCalls \cup CapacityCalls :
       /\ targetStack = call.stack
       /\ numPlayers = call.players
       /\ maxReentries = call.reentries
       /\ blindLevels = LevelsOf(call)
  /\ pc = "start"
  /\ maxChipsPerEntry = NoChips
  /\ minChipsForBlinds = NoChips
  /\ distribution = NoChips
  /\ totalDistributed = 0
  /\ gap = 0
  /\ iterations = 0
  /\ madeProgress = FALSE
  /\ gapBefore = 0
  /\ denomIdx = 0
  /\ lastMove = "none"
  /\ GenIdle
  /\ SelectorIdle
  /\ EstimatorIdle
  /\ history = << >>
  /\ ServerIdle

(* ------------------------ calculateChipDistribution -------------------- *)
inputVars == <<targetStack, numPlayers, maxReentries, blindLevels>>

\* Step 1 and Step 2
Setup ==
  /\ pc = "start"
  /\ maxChipsPerEntry' = MaxChipsPerEntry(MaxEntries(numPlayers, maxReentries))
  /\ minChipsForBlinds' = MinChipsFloor(blindLevels, maxChipsPerEntry')
  /\ pc' = "seed"
  /\ UNCHANGED <<inputVars, distribution, totalDistributed, gap, iterations, madeProgress,
                 gapBefore, denomIdx, lastMove, genVars, otherVars>>

\* Step 3
Seed ==
  /\ pc = "seed"
  /\ distribution' = SeedDistribution(maxChipsPerEntry)
  /\ totalDistributed' = DistTotal(distribution')
  /\ pc' = "topup"
  /\ UNCHANGED <<inputVars, maxChipsPerEntry, minChipsForBlinds, gap, iterations, madeProgress,
                 gapBefore, denomIdx, lastMove, genVars, otherVars>>

\* Step 4
TopUp ==
  /\ pc = "topup"
  /\ distribution' = TopUpDistribution(distribution, maxChipsPerEntry, minChipsForBlinds)
  /\ totalDistributed' = DistTotal(distribution')
  /\ gap' = targetStack - totalDistributed'
  /\ pc' = "reduce"
  /\ UNCHANGED <<inputVars, maxChipsPerEntry, minChipsForBlinds, iterations, madeProgress,
                 gapBefore, denomIdx, lastMove, genVars, otherVars>>

\* Step 5, `if (gap < 0)`, and the entry into the while loop of the grow phase
Reduce ==
  /\ pc = "reduce"
  /\ LET r == IF gap < 0
              THEN ReducePhase(distribution, totalDistributed, minChipsForBlinds, targetStack)
              ELSE [dist |-> distribution, total |-> totalDistributed, rem |-> 0]
         newGap == targetStack - r.total
     IN /\ distribution' = r.dist
        /\ totalDistributed' = r.total
        /\ gap' = newGap
        /\ IF newGap > 0 /\ 0 < maxIterations
           THEN /\ pc' = "grow"
                /\ iterations' = 1
                /\ gapBefore' = newGap
                /\ denomIdx' = 1
           ELSE /\ pc' = "verify"
                /\ UNCHANGED <<iterations, gapBefore, denomIdx>>
  /\ madeProgress' = FALSE
  /\ UNCHANGED <<inputVars, maxChipsPerEntry, minChipsForBlinds, lastMove, genVars, otherVars>>

\* one denomination of `for (const denom of sortedDenomsDesc)`
GrowDenom ==
  /\ pc = "grow"
  /\ denomIdx <= Len(sortedDenomsDesc)
  /\ gap > 0
  /\ LET s == GrowDenomStep([dist |-> distribution, total |-> totalDistributed, gap |-> gap,
                             prog |-> madeProgress, move |-> "none"],
                            sortedDenomsDesc[denomIdx], maxChipsPerEntry, minChipsForBlinds,
                            targetStack)
     IN /\ distribution' = s.dist
        /\ totalDistributed' = s.total
        /\ gap' = s.gap
        /\ madeProgress' = s.prog
        /\ lastMove' = s.move
  /\ denomIdx' = denomIdx + 1
  /\ UNCHANGED <<pc, inputVars, maxChipsPerEntry, minChipsForBlinds, iterations, gapBefore,
                 genVars, otherVars>>

\* mutant: a pass is not counted and the loop goes on without progress
GrowPassEnd_NoExit ==
  /\ pc = "grow"
  /\ (denomIdx > Len(sortedDenomsDesc) \/ gap <= 0)
  /\ LET s == GrowPassTail([dist |-> distribution, total |-> totalDistributed, gap |-> gap,
                            prog |-> madeProgress, move |-> "none"],
                           maxChipsPerEntry, targetStack)
     IN /\ distribution' = s.dist
        /\ totalDistributed' = s.total
        /\ gap' = s.gap
        /\ lastMove' = s.move
        /\ IF ~(s.gap > 0)
           THEN /\ pc' = "verify"
                /\ madeProgress' = s.prog
                /\ UNCHANGED <<iterations, gapBefore, denomIdx>>
           ELSE /\ pc' = "grow"
                /\ madeProgress' = FALSE
                /\ gapBefore' = s.gap
                /\ denomIdx' = 1
                /\ UNCHANGED iterations
  /\ UNCHANGED <<inputVars, maxChipsPerEntry, minChipsForBlinds, genVars, otherVars>>

\* the rest of the pass: the two fallbacks, the progress check, the loop condition
GrowPassEnd ==
  /\ pc = "grow"
  /\ (denomIdx > Len(sortedDenomsDesc) \/ gap <= 0)
  /\ LET s == GrowPassTail([dist |-> distribution, total |-> totalDistributed, gap |-> gap,
                            prog |-> madeProgress, move |-> "none"],
                           maxChipsPerEntry, targetStack)
     IN /\ distribution' = s.dist
        /\ totalDistributed' = s.total
        /\ gap' = s.gap
        /\ lastMove' = s.move
        /\ IF ~s.prog \/ s.gap >= gapBefore \/ ~(s.gap > 0 /\ iterations < maxIterations)
           THEN /\ pc' = "verify"
                /\ madeProgress' = s.prog
                /\ UNCHANGED <<iterations, gapBefore, denomIdx>>
           ELSE /\ pc' = "grow"
                /\ iterations' = iterations + 1
                /\ madeProgress' = FALSE
                /\ gapBefore' = s.gap
                /\ denomIdx' = 1
  /\ UNCHANGED <<inputVars, maxChipsPerEntry, minChipsForBlinds, genVars, otherVars>>

\* final verification: recompute the sum, remove what is still over
FinalVerify ==
  /\ pc = "verify"
  /\ distribution' = FinalReduce(distribution, minChipsForBlinds, targetStack)
  /\ totalDistributed' = DistTotal(distribution')
  /\ pc' = "fill"
  /\ UNCHANGED <<inputVars, maxChipsPerEntry, minChipsForBlinds, gap, iterations, madeProgress,
                 gapBefore, denomIdx, lastMove, genVars, otherVars>>

\* final pass, then `return distribution`
FinalPass ==
  /\ pc = "fill"
  /\ distribution' = FinalTopUp(distribution, maxChipsPerEntry, minChipsForBlinds, targetStack)
  /\ totalDistributed' = DistTotal(distribution')
  /\ pc' = "done"
  /\ UNCHANGED <<inputVars, maxChipsPerEntry, minChipsForBlinds, gap, iterations, madeProgress,
                 gapBefore, denomIdx, lastMove, genVars, otherVars>>

Next == Setup \/ Seed \/ TopUp \/ Reduce \/ GrowDenom \/ GrowPassEnd \/ FinalVerify \/ FinalPass

Spec == Init /\ [][Next]_vars

(* ------------------------ generateBlindStructure ----------------------- *)
Rates ==
  { NotANumber, [num |-> 1, den |-> 2], [num |-> 1, den |-> 1], [num |-> 101, den |-> 100],
    [num |-> 6, den |-> 5], [num |-> 5, den |-> 4], [num |-> 7, den |-> 5], [num |-> 2, den |-> 1] }

\* GET /api/blind-structure/:speed with any query
BlindCalls ==
  { [stack |-> c[1], speed |-> c[2], depth |-> c[3], rate |-> c[4], bba |-> c[5]] :
      c \in (1..MaxBlindStack) \X Speeds \X ((1..MaxBlindDepth) \cup {DefaultBlindDepth})
            \X Rates \X ((0..MaxBbaStart) \cup {DefaultBbaStart}) }

ScenarioStack == 10000

\* the documented scenarios: stack 10000, depth 50, ante from level 6; the rate
\* barely above 1 with the speed 'normal' only
ScenarioCalls ==
  { [stack |-> ScenarioStack, speed |-> sp, depth |-> DefaultBlindDepth, rate |-> rt,
     bba |-> DefaultBbaStart] :
      <<sp, rt>> \in { <<sp, rt>> \in Speeds \X Rates :
                         rt.num <= 2 * rt.den /\ (rt.num # 101 \/ sp = "normal") } }

\* POST /api/tournaments and /preview: the stack comes from the selector
SelectorCalls ==
  { [stack |-> calculateStartingStack(c[1], c[2]), speed |-> "normal",
     depth |-> DefaultBlindDepth, rate |-> DefaultIncreaseRate, bba |-> DefaultBbaStart] :
      c \in (1..MaxPlayers) \X (0..MaxReentries) }

InitBlinds ==
  /\ \E call \in BlindCalls \cup ScenarioCalls \cup SelectorCalls :
       /\ startingStack = call.stack
       /\ speed = call.speed
       /\ startingBlindDepth = call.depth
       /\ blindIncreaseRate = call.rate
       /\ bbaStartLevel = call.bba
  /\ gpc = "start"
  /\ increaseRate = DefaultIncreaseRate
  /\ gen = GenStart(0, DefaultBlindDepth)
  /\ SolverIdle
  /\ SelectorIdle
  /\ EstimatorIdle
  /\ history = << >>
  /\ ServerIdle

genInputs == <<startingStack, speed, startingBlindDepth, blindIncreaseRate, bbaStartLevel>>

\* mutant: `levels` outlives the call; a call appends to what the call before returned
GenBegin_KeepsLevels ==
  /\ gpc = "start"
  /\ gen' = [GenStart(startingStack, startingBlindDepth) EXCEPT !.levels = gen.levels]
  /\ increaseRate' = EffectiveRate(blindIncreaseRate, speed)
  /\ gpc' = "loop"
  /\ UNCHANGED <<genInputs, solverVars, otherVars>>

\* the initial big blind and the validation of the rate
GenBegin ==
  /\ gpc = "start"
  /\ gen' = GenStart(startingStack, startingBlindDepth)
  /\ increaseRate' = EffectiveRate(blindIncreaseRate, speed)
  /\ gpc' = "loop"
  /\ UNCHANGED <<genInputs, solverVars, otherVars>>

\* one iteration of `while (currentBB < maxBlind)`
GenLevel ==
  /\ gpc = "loop"
  /\ LoopCondition(gen, startingStack)
  /\ gen' = LevelStep(gen, increaseRate, bbaStartLevel)
  /\ UNCHANGED <<gpc, genInputs, increaseRate, solverVars, otherVars>>

\* `return { ...config, levels }`
GenReturn ==
  /\ gpc = "loop"
  /\ ~LoopCondition(gen, startingStack)
  /\ gpc' = "returned"
  /\ UNCHANGED <<genInputs, increaseRate, gen, solverVars, otherVars>>

NextBlinds == GenBegin \/ GenLevel \/ GenReturn

SpecBlinds == InitBlinds /\ [][NextBlinds]_vars

(* ------------------- calls made one after another ---------------------- *)
MaxCalls == 3

\* the suite's calls, and the preview of the largest tournament: no 500 or 1000 per entry
RepeatSolverCalls ==
  SuiteCalls \cup
  { c \in PreviewCalls : c.players = MaxPlayers /\ c.reentries = MaxReentries /\ c.levels = 1 }

RepeatGenCalls ==
  { c \in BlindCalls : /\ c.stack = MaxBlindStack
                       /\ c.depth = 1
                       /\ c.bba = MaxBbaStart
                       /\ c.speed = "normal"
                       /\ c.rate.num \in {1, 2, 5} /\ c.rate.den \in {1, 4} }

\* no call is running
Quiescent == pc \in {"idle", "done"} /\ gpc \in {"idle", "returned"}

\* the history, with the call that has just returned
Recorded ==
  IF pc = "done"
  THEN Append(history, [fn |-> "calculateChipDistribution",
                        args |-> <<targetStack, numPlayers, maxReentries, blindLevels>>,
                        result |-> distribution])
  ELSE IF gpc = "returned"
  THEN Append(history, [fn |-> "generateBlindStructure",
                        args |-> <<startingStack, speed, startingBlindDepth, blindIncreaseRate,
                                   bbaStartLevel>>,
                        result |-> gen.levels])
  ELSE history

InitRepeat == SolverIdle /\ GenIdle /\ SelectorIdle /\ EstimatorIdle /\ history = << >> /\ ServerIdle

\* the next call of calculateChipDistribution: only its arguments are given; whatever
\* the calls before left behind is still there
CallSolver ==
  /\ Quiescent
  /\ Len(Recorded) < MaxCalls
  /\ \E call \in RepeatSolverCalls :
       /\ targetStack' = call.stack
       /\ numPlayers' = call.players
       /\ maxReentries' = call.reentries
       /\ blindLevels' = LevelsOf(call)
  /\ history' = Recorded
  /\ pc' = "start"
  /\ gpc' = "idle"
  /\ UNCHANGED <<maxChipsPerEntry, minChipsForBlinds, distribution, totalDistributed, gap,
                 iterations, madeProgress, gapBefore, denomIdx, lastMove, genInputs,
                 increaseRate, gen, selectorVars, estimatorVars, serverVars>>

\* the next call of generateBlindStructure
CallGen ==
  /\ Quiescent
  /\ Len(Recorded) < MaxCalls
  /\ \E call \in RepeatGenCalls :
       /\ startingStack' = call.stack
       /\ speed' = call.speed
       /\ startingBlindDepth' = call.depth
       /\ blindIncreaseRate' = call.rate
       /\ bbaStartLevel' = call.bba
  /\ history' = Recorded
  /\ gpc' = "start"
  /\ pc' = "idle"
  /\ UNCHANGED <<inputVars, maxChipsPerEntry, minChipsForBlinds, distribution, totalDistributed,
                 gap, iterations, madeProgress, gapBefore, denomIdx, lastMove, increaseRate,
                 gen, selectorVars, estimatorVars, serverVars>>

NextRepeat == CallSolver \/ CallGen \/ Next \/ NextBlinds

SpecRepeat == InitRepeat /\ [][NextRepeat]_vars

(* ------------------------ calculateStartingStack ----------------------- *)
MaxSelPlayers == 160

\* any max_players a request can carry, 0 and a negative number included
SelectCalls ==
  { [players |-> c[1], reentries |-> c[2]] : c \in ((-1)..MaxSelPlayers) \X (0..MaxReentries) }

InitSelect ==
  /\ \E call \in SelectCalls :
       /\ selPlayers = call.players
       /\ selReentries = call.reentries
  /\ spc = "called"
  /\ selStack = Finite(0)
  /\ history = << >>
  /\ ServerIdle
  /\ SolverIdle
  /\ GenIdle
  /\ EstimatorIdle

\* the whole function: it has no throw and no early return
SelectStack ==
  /\ spc = "called"
  /\ selStack' = SelectorResult(selPlayers, selReentries)
  /\ spc' = "returned"
  /\ UNCHANGED <<selPlayers, selReentries, history, solverVars, genVars, estimatorVars, serverVars>>

NextSelect == SelectStack

SpecSelect == InitSelect /\ [][NextSelect]_vars

(* ------ calculateMinChipsForAmount and calculateMinChipsForBlinds ------ *)
MaxAmount == 130

MaxSmallBlind == 12

\* structures of one level with any small amounts, multiples of the base unit or not
OneLevelStructures ==
  { << [sb |-> c[1], bb |-> c[2], ante |-> IF c[3] = 1 THEN c[2] ELSE 0] >> :
      c \in (0..MaxSmallBlind) \X (0..MaxSmallBlind) \X {0, 1} }

\* the structures generateBlindStructure returns: short ones and ones of more than 12
\* levels; for the stack 10000 the rates from 1.2 on
GeneratedStructures ==
  { generateBlindStructure(c.stack, c.speed, c.depth, c.rate, c.bba) :
      c \in { c \in BlindCalls \cup ScenarioCalls :
                /\ c.speed = "normal"
                /\ c.bba \in {MaxBbaStart, DefaultBbaStart}
                /\ c.rate # NotANumber /\ c.rate.num > c.rate.den
                /\ (c.stack <= MaxBlindStack \/ 10 * c.rate.num >= 12 * c.rate.den) } }

EstimatorCalls ==
  { [kind |-> "amount", amount |-> a, levels |-> << >>] : a \in (-2)..MaxAmount }
  \cup { [kind |-> "blinds", amount |-> 0, levels |-> l] :
           l \in {<< >>, blindStructureWith5s} \cup OneLevelStructures \cup GeneratedStructures }

InitEstimate ==
  /\ estInput \in EstimatorCalls
  /\ epc = "called"
  /\ estResult = NoChips
  /\ history = << >>
  /\ ServerIdle
  /\ SolverIdle
  /\ GenIdle
  /\ SelectorIdle

estimatorRest == <<solverVars, genVars, selectorVars, history, serverVars>>

EstimateAmount ==
  /\ epc = "called"
  /\ estInput.kind = "amount"
  /\ estResult' = calculateMinChipsForAmount(estInput.amount)
  /\ epc' = "returned"
  /\ UNCHANGED <<estInput, estimatorRest>>

EstimateBlinds ==
  /\ epc = "called"
  /\ estInput.kind = "blinds"
  /\ estResult' = calculateMinChipsForBlinds(estInput.levels)
  /\ epc' = "returned"
  /\ UNCHANGED <<estInput, estimatorRest>>

NextEstimate == EstimateAmount \/ EstimateBlinds

SpecEstimate == InitEstimate /\ [][NextEstimate]_vars

(* ------------------- POST /api/tournaments/:id/entries ------------------ *)
EntryTournaments ==
  { CreateTournament(p, r, "normal", DefaultBlindDepth, DefaultIncreaseRate, DefaultBbaStart) :
      <<p, r>> \in { <<p, r>> \in {2, 10} \X (0..MaxReentries) : TRUE } }

InitEntries ==
  /\ tournament \in EntryTournaments
  /\ entries = [n \in PlayerNames |-> << >>]
  /\ now = 0
  /\ entryReq = [c \in EntryClients |-> IdleEntryReq]
  /\ getReq = [p \in Pollers |-> IdleGetReq]
  /\ opReq = IdleOpReq
  /\ SolverIdle
  /\ GenIdle
  /\ SelectorIdle
  /\ EstimatorIdle
  /\ history = << >>

entriesRest ==
  <<solverVars, genVars, selectorVars, history, estimatorVars, tournament, now, getReq, opReq>>

\* the request arrives and the handler SELECTs the player's existing entries
EntrySelectExisting(c) ==
  /\ entryReq[c].pc = "idle"
  /\ \E name \in PlayerNames :
       entryReq' = [entryReq EXCEPT ![c] = [pc |-> "tournament", player_name |-> name,
                                             existingEntries |-> Len(entries[name])]]
  /\ UNCHANGED <<entries, entriesRest>>

\* `existingEntries.length > 0 && entryNumber > tournament.max_reentries + 1`
EntryRefused(existingEntries, max_reentries_) ==
  existingEntries > 0 /\ existingEntries + 1 > max_reentries_ + 1

\* the handler SELECTs the tournament and answers 400 when the limit is reached
EntrySelectTournament(c) ==
  /\ entryReq[c].pc = "tournament"
  /\ entryReq' = [entryReq EXCEPT ![c] =
                    IF EntryRefused(entryReq[c].existingEntries, tournament.max_reentries)
                    THEN IdleEntryReq
                    ELSE [@ EXCEPT !.pc = "insert"]]
  /\ UNCHANGED <<entries, entriesRest>>

\* the INSERT, with entry_number = existingEntries.length + 1
EntryInsert(c) ==
  /\ entryReq[c].pc = "insert"
  /\ entries' = [entries EXCEPT ![entryReq[c].player_name] =
                   Append(@, entryReq[c].existingEntries + 1)]
  /\ entryReq' = [entryReq EXCEPT ![c] = IdleEntryReq]
  /\ UNCHANGED entriesRest

NextEntries ==
  \E c \in EntryClients : EntrySelectExisting(c) \/ EntrySelectTournament(c) \/ EntryInsert(c)

SpecEntries == InitEntries /\ [][NextEntries]_vars

(* ------------- GET /api/tournaments/:id and the PATCH handlers ---------- *)

MaxClock == 1800

MaxLevelsPast == 1

MaxInFlight == 2

SPEED_CONFIG(speed_) ==
  IF speed_ = "turbo" THEN [levelMinutes |-> 10, breakFrequency |-> 6, breakMinutes |-> 10]
  ELSE IF speed_ = "slow" THEN [levelMinutes |-> 30, breakFrequency |-> 3, breakMinutes |-> 20]
  ELSE [levelMinutes |-> 20, breakFrequency |-> 4, breakMinutes |-> 15]

\* the step of the clock: the shortest duration of SPEED_CONFIG, which divides
\* the others
TickSeconds == SPEED_CONFIG("turbo").levelMinutes * 60

levelSeconds(row) == SPEED_CONFIG(row.speed).levelMinutes * 60

breakSeconds(row) == SPEED_CONFIG(row.speed).breakMinutes * 60

\* structure.levels of the row; the `|| 50`, `|| 1.25`, `|| 6` defaults never
\* apply, the columns are NOT NULL and the rows here hold no zero
structureLevels(row) ==
  generateBlindStructure(row.starting_stack, row.speed, row.starting_blind_depth,
                         row.blind_increase_rate, row.bba_start_level)

\* structure.levels[current_level - 1] || structure.levels[0]
currentBlind(row) ==
  IF row.current_level \in 1..Len(structureLevels(row))
  THEN structureLevels(row)[row.current_level]
  ELSE structureLevels(row)[1]

isBreakLevel(row) ==
  row.current_level > 0 /\ row.current_level % SPEED_CONFIG(row.speed).breakFrequency = 0

isBreak(row) ==
  /\ isBreakLevel(row)
  /\ row.break_start_time # NULL
  /\ row.break_completed_level # row.current_level

\* EXTRACT(EPOCH FROM (NOW() - column))::INTEGER, read with `|| 0`
Elapsed(time) == IF time = NULL THEN 0 ELSE now - time

\* Math.max(0, structure.levelMinutes * 60 - elapsed)
TimeRemaining(row, elapsed) == Max(0, levelSeconds(row) - elapsed)

\* a short structure, so that its last level and a break level are within reach
LevelTournaments ==
  { CreateTournament(2, 0, "slow", 1, [num |-> 2, den |-> 1], DefaultBbaStart) }

InitLevels ==
  /\ tournament \in LevelTournaments
  /\ entries = [n \in PlayerNames |-> << >>]
  /\ now = 0
  /\ entryReq = [c \in EntryClients |-> IdleEntryReq]
  /\ getReq = [p \in Pollers |-> IdleGetReq]
  /\ opReq = IdleOpReq
  /\ SolverIdle
  /\ GenIdle
  /\ SelectorIdle
  /\ EstimatorIdle
  /\ history = << >>

\* the requests being handled: a handler is in flight from its first statement
\* to its answer
InFlight ==
  Cardinality({ p \in Pollers : getReq[p].pc # "idle" }) + (IF opReq.pc # "idle" THEN 1 ELSE 0)

levelsRest == <<solverVars, genVars, selectorVars, history, estimatorVars, entries, entryReq>>

\* the clock of the database
Tick ==
  /\ now < MaxClock
  /\ now' = now + TickSeconds
  /\ UNCHANGED <<tournament, getReq, opReq, levelsRest>>

\* after the timers, the handler checks for an expired level or answers
AfterTimers(req) ==
  IF /\ req.tournament.status = "running"
     /\ ~req.isBreak
     /\ req.timeRemaining <= 0
     /\ req.tournament.level_start_time # NULL
  THEN [req EXCEPT !.pc = "sinceStart"]
  ELSE IdleGetReq

\* the request arrives: SELECT of the tournament (and of its entries and
\* knockouts, which the timers do not use), then the choice of the branch
GetSelect(p) ==
  /\ getReq[p].pc = "idle"
  /\ InFlight < MaxInFlight
  /\ LET t == tournament
         req == [pc |-> "idle", tournament |-> t, isBreak |-> isBreak(t),
                 timeRemaining |-> levelSeconds(t), levelElapsed |-> 0]
     IN getReq' = [getReq EXCEPT ![p] =
          IF t.status = "running"
          THEN IF req.isBreak /\ t.break_start_time # NULL
               THEN [req EXCEPT !.pc = "breakElapsed"]
               ELSE IF /\ isBreakLevel(t)
                       /\ t.break_start_time = NULL
                       /\ t.level_start_time # NULL
                       /\ t.break_completed_level # t.current_level
               THEN [req EXCEPT !.pc = "levelElapsed"]
               ELSE IF t.level_start_time # NULL /\ ~req.isBreak
               THEN [req EXCEPT !.pc = "elapsed"]
               ELSE AfterTimers(req)
          ELSE IF t.status = "paused"
          THEN AfterTimers([req EXCEPT !.timeRemaining =
                  IF req.isBreak /\ t.break_start_time # NULL
                  THEN TimeRemaining(t, t.level_elapsed_before_break)
                  ELSE TimeRemaining(t, t.elapsed_before_pause)])
          ELSE AfterTimers(req)]
  /\ UNCHANGED <<tournament, now, opReq, levelsRest>>

\* in a break: the break's elapsed time is read
GetBreakElapsed(p) ==
  /\ getReq[p].pc = "breakElapsed"
  /\ LET req == getReq[p]
         breakTimeRemaining ==
           Max(0, breakSeconds(req.tournament) - Elapsed(tournament.break_start_time))
         timed == [req EXCEPT !.timeRemaining =
                     TimeRemaining(req.tournament, req.tournament.level_elapsed_before_break)]
     IN getReq' = [getReq EXCEPT ![p] =
          IF breakTimeRemaining <= 0 THEN [timed EXCEPT !.pc = "endBreak"]
          ELSE AfterTimers(timed)]
  /\ UNCHANGED <<tournament, now, opReq, levelsRest>>

\* the break is over: the UPDATE that resumes the level, then the two reads
\* that refresh the handler's row and its timer; isBreak keeps its value, so
\* the handler answers
GetEndBreak(p) ==
  /\ getReq[p].pc = "endBreak"
  /\ tournament' = [tournament EXCEPT
       !.break_start_time = NULL,
       !.level_start_time = now - getReq[p].tournament.level_elapsed_before_break,
       !.level_elapsed_before_break = 0,
       !.break_completed_level = getReq[p].tournament.current_level]
  /\ getReq' = [getReq EXCEPT ![p] = IdleGetReq]
  /\ UNCHANGED <<now, opReq, levelsRest>>

\* a break level just entered: the level's elapsed time is read
GetLevelElapsed(p) ==
  /\ getReq[p].pc = "levelElapsed"
  /\ getReq' = [getReq EXCEPT ![p] =
       [@ EXCEPT !.pc = "startBreak", !.levelElapsed = Elapsed(tournament.level_start_time)]]
  /\ UNCHANGED <<tournament, now, opReq, levelsRest>>

\* the UPDATE that starts the break
GetStartBreak(p) ==
  /\ getReq[p].pc = "startBreak"
  /\ tournament' = [tournament EXCEPT
       !.break_start_time = now,
       !.level_elapsed_before_break = getReq[p].levelElapsed]
  /\ getReq' = [getReq EXCEPT ![p] = [@ EXCEPT !.pc = "startBreakRefresh"]]
  /\ UNCHANGED <<now, opReq, levelsRest>>

\* the handler's row is read again; isBreak keeps the value computed before
GetStartBreakRefresh(p) ==
  /\ getReq[p].pc = "startBreakRefresh"
  /\ LET req == getReq[p]
     IN getReq' = [getReq EXCEPT ![p] =
          AfterTimers([req EXCEPT !.tournament = tournament,
                                  !.timeRemaining = TimeRemaining(req.tournament, req.levelElapsed)])]
  /\ UNCHANGED <<tournament, now, opReq, levelsRest>>

\* a normal level: the level's elapsed time is read
GetElapsed(p) ==
  /\ getReq[p].pc = "elapsed"
  /\ LET req == getReq[p]
         timed == [req EXCEPT !.timeRemaining =
                     TimeRemaining(req.tournament, Elapsed(tournament.level_start_time))]
     IN getReq' = [getReq EXCEPT ![p] =
          IF timed.tournament.break_start_time # NULL
          THEN [timed EXCEPT !.pc = "clearBreak"]
          ELSE AfterTimers(timed)]
  /\ UNCHANGED <<tournament, now, opReq, levelsRest>>

\* the UPDATE that clears a break_start_time left behind
GetClearBreak(p) ==
  /\ getReq[p].pc = "clearBreak"
  /\ tournament' = [tournament EXCEPT !.break_start_time = NULL]
  /\ getReq' = [getReq EXCEPT ![p] = AfterTimers(@)]
  /\ UNCHANGED <<now, opReq, levelsRest>>

\* "Verify the level hasn't just been advanced": the elapsed time is read
\* again, then the two checks
GetSinceStart(p) ==
  /\ getReq[p].pc = "sinceStart"
  /\ LET req == getReq[p]
     IN getReq' = [getReq EXCEPT ![p] =
          IF /\ Elapsed(tournament.level_start_time) >= levelSeconds(req.tournament)
             /\ req.tournament.current_level < Len(structureLevels(req.tournament))
          THEN [req EXCEPT !.pc = "advance"]
          ELSE IdleGetReq]
  /\ UNCHANGED <<tournament, now, opReq, levelsRest>>

\* the UPDATE of the automatic advance, then the read that refreshes the row
\* for the answer
GetAdvance(p) ==
  /\ getReq[p].pc = "advance"
  /\ tournament' = [tournament EXCEPT
       !.current_level = @ + 1,
       !.level_start_time = now,
       !.elapsed_before_pause = 0,
       !.break_start_time = NULL,
       !.level_elapsed_before_break = 0]
  /\ getReq' = [getReq EXCEPT ![p] = IdleGetReq]
  /\ UNCHANGED <<now, opReq, levelsRest>>

\* PATCH /api/tournaments/:id/status: the SELECT
OpStatusSelect ==
  /\ opReq.pc = "idle"
  /\ InFlight < MaxInFlight
  /\ \E status \in {"running", "paused", "finished"} :
       opReq' = [pc |-> "status", status |-> status, current |-> tournament]
  /\ UNCHANGED <<tournament, now, getReq, levelsRest>>

\* PATCH /api/tournaments/:id/status: the UPDATE chosen from the row selected
OpStatusUpdate ==
  /\ opReq.pc = "status"
  /\ LET current == opReq.current
         status == opReq.status
         inBreak == isBreakLevel(current) /\ current.break_start_time # NULL
     IN tournament' =
          IF status = "running"
          THEN IF current.status = "paused"
               THEN IF inBreak
                    THEN [tournament EXCEPT !.status = status,
                            !.break_start_time = now - current.elapsed_before_pause,
                            !.elapsed_before_pause = 0]
                    ELSE [tournament EXCEPT !.status = status,
                            !.level_start_time = now - current.elapsed_before_pause,
                            !.elapsed_before_pause = 0]
               ELSE [tournament EXCEPT !.status = status,
                       !.level_start_time = now,
                       !.elapsed_before_pause = 0,
                       !.break_start_time = NULL,
                       !.level_elapsed_before_break = 0,
                       !.break_completed_level = NULL]
          ELSE IF status = "paused"
          THEN IF inBreak /\ current.status = "running"
               THEN [tournament EXCEPT !.status = status,
                       !.elapsed_before_pause = Elapsed(tournament.break_start_time)]
               ELSE IF current.level_start_time # NULL /\ current.status = "running"
               THEN [tournament EXCEPT !.status = status,
                       !.elapsed_before_pause = Elapsed(tournament.level_start_time)]
               ELSE [tournament EXCEPT !.status = status]
          ELSE [tournament EXCEPT !.status = status]
  /\ opReq' = IdleOpReq
  /\ UNCHANGED <<now, getReq, levelsRest>>

\* PATCH /api/tournaments/:id/skip-break: the SELECT; 400 outside a break
OpSkipSelect ==
  /\ opReq.pc = "idle"
  /\ InFlight < MaxInFlight
  /\ tournament.break_start_time # NULL
  /\ opReq' = [pc |-> "skip", status |-> "pending", current |-> tournament]
  /\ UNCHANGED <<tournament, now, getReq, levelsRest>>

\* PATCH /api/tournaments/:id/skip-break: the UPDATE
OpSkipUpdate ==
  /\ opReq.pc = "skip"
  /\ tournament' = [tournament EXCEPT
       !.break_start_time = NULL,
       !.level_start_time = now - opReq.current.level_elapsed_before_break,
       !.level_elapsed_before_break = 0,
       !.break_completed_level = opReq.current.current_level]
  /\ opReq' = IdleOpReq
  /\ UNCHANGED <<now, getReq, levelsRest>>

\* PATCH /api/tournaments/:id/next-level: one UPDATE
OpNextLevel ==
  /\ opReq.pc = "idle"
  /\ InFlight < MaxInFlight
  /\ tournament.current_level < Len(structureLevels(tournament)) + MaxLevelsPast
  /\ tournament' = [tournament EXCEPT
       !.current_level = @ + 1,
       !.level_start_time = now,
       !.elapsed_before_pause = 0,
       !.break_start_time = NULL,
       !.level_elapsed_before_break = 0]
  /\ UNCHANGED <<now, getReq, opReq, levelsRest>>

NextLevels ==
  \/ Tick
  \/ \E p \in Pollers :
       \/ GetSelect(p)
       \/ GetBreakElapsed(p)
       \/ GetEndBreak(p)
       \/ GetLevelElapsed(p)
       \/ GetStartBreak(p)
       \/ GetStartBreakRefresh(p)
       \/ GetElapsed(p)
       \/ GetClearBreak(p)
       \/ GetSinceStart(p)
       \/ GetAdvance(p)
  \/ OpStatusSelect
  \/ OpStatusUpdate
  \/ OpSkipSelect
  \/ OpSkipUpdate
  \/ OpNextLevel

SpecLevels == InitLevels /\ [][NextLevels]_vars

(* ============================== claims ================================= *)
perEntryCap == MaxChipsPerEntry(MaxEntries(numPlayers, maxReentries))

Returned == pc = "done"

SelectorStack == targetStack = calculateStartingStack(numPlayers, maxReentries)

\* can `t` be made from denominations sortedDenomsDesc[i..] within `cap`
RECURSIVE CapFrom(_, _)
CapFrom(i, cap) ==
  IF i > Len(sortedDenomsDesc) THEN 0
  ELSE sortedDenomsDesc[i] * cap[sortedDenomsDesc[i]] + CapFrom(i + 1, cap)

RECURSIVE CanMake(_, _, _)
CanMake(i, t, cap) ==
  IF t = 0 THEN TRUE
  ELSE IF t < 0 \/ i > Len(sortedDenomsDesc) \/ t > CapFrom(i, cap) THEN FALSE
  ELSE \E k \in 0..Min(cap[sortedDenomsDesc[i]], t \div sortedDenomsDesc[i]) :
         CanMake(i + 1, t - k * sortedDenomsDesc[i], cap)

Feasible == CanMake(1, targetStack, perEntryCap)

\* C1 (P1 exactness): for a stack chosen by calculateStartingStack, without a
\* structure or with the one generated for it, the returned distribution sums
\* to the stack exactly.
C1_SelectorStackExact ==
  (Returned /\ SelectorStack) => DistTotal(distribution) = targetStack

\* C2 (exact whenever feasible): if some assignment within the per-entry caps
\* sums to targetStack, the returned distribution sums to targetStack.
C2_ExactWhenFeasible ==
  Returned => (DistTotal(distribution) = targetStack \/ ~Feasible)

\* C3 (P2 capacity): in every state of the solver, so after every phase and in
\* the returned distribution, no denomination holds more than
\* floor(CHIP_SET[d] / maxEntries) chips.
C3_Capacity ==
  \A d \in Denoms : distribution[d] <= CHIP_SET[d] \div (numPlayers * (maxReentries + 1))

\* a grow pass has run, the result is returned, some denomination sits at its
\* ceiling and some other below it
C3_Witness ==
  /\ Returned
  /\ iterations > 0
  /\ \E d \in Denoms : perEntryCap[d] > 0 /\ distribution[d] = perEntryCap[d]
  /\ \E d \in Denoms : distribution[d] < perEntryCap[d]

\* C4 (P3 liquidity floor): once the floors are set and the distribution is
\* seeded, every denomination holds at least min(minChips[d], perEntryCap[d])
\* chips; no reduce, swap or final-correction step goes below that. minChips
\* is the estimator's floor, with min(10, perEntryCap[baseUnit]) for the base
\* unit when the estimator gives it none.
C4_LiquidityFloor ==
  pc \notin {"start", "seed"} =>
    /\ \A d \in Denoms : distribution[d] >= Min(minChipsForBlinds[d], perEntryCap[d])
    /\ \A d \in Denoms :
         minChipsForBlinds[d] =
           IF d = baseUnit /\ calculateMinChipsForBlinds(blindLevels)[d] = 0
           THEN Min(MinBaseUnitsDefault, perEntryCap[d])
           ELSE calculateMinChipsForBlinds(blindLevels)[d]

\* the reduce phase has stripped the base unit down to a floor below its ceiling
C4_Witness ==
  /\ Returned
  /\ minChipsForBlinds[baseUnit] > 0
  /\ minChipsForBlinds[baseUnit] < perEntryCap[baseUnit]
  /\ distribution[baseUnit] = minChipsForBlinds[baseUnit]

ScenarioA ==
  targetStack = 2300 /\ numPlayers = 16 /\ maxReentries = 0 /\ blindLevels = << >>

\* C5 (Scenario A): calculateChipDistribution(2300, 16, null, 0) returns a
\* distribution that sums to exactly 2300.
C5_ScenarioA == (Returned /\ ScenarioA) => DistTotal(distribution) = 2300

C5_Witness == Returned /\ ScenarioA /\ iterations > 0

ScenarioB ==
  targetStack = 2300 /\ numPlayers = 10 /\ maxReentries = 1 /\ blindLevels = << >>

\* C6 (Scenario B): calculateChipDistribution(2300, 10, null, 1) returns a
\* distribution that sums to exactly 2300 with every count at most
\* floor(inventory[d] / 20).
C6_ScenarioB ==
  (Returned /\ ScenarioB) =>
    /\ DistTotal(distribution) = 2300
    /\ \A d \in Denoms : distribution[d] <= CHIP_SET[d] \div 20

SuiteStacks == { <<2300, 16, 0>>, <<2300, 10, 1>>, <<10000, 8, 0>>, <<5000, 20, 0>> }

\* C7 (test suite, no structure): for each case of the suite the returned
\* distribution totals exactly startingStack.
C7_SuiteExact ==
  (Returned /\ blindLevels = << >> /\ <<targetStack, numPlayers, maxReentries>> \in SuiteStacks)
    => DistTotal(distribution) = targetStack

PayableInBaseUnits(levels) ==
  /\ Len(levels) > 0
  /\ \A i \in 1..Min(EarlyLevelCount, Len(levels)) :
       levels[i].sb % baseUnit = 0 /\ levels[i].bb % baseUnit = 0 /\ levels[i].ante % baseUnit = 0

\* C8 (exactness together with small chips): when the structure supplied has
\* early levels payable in base-unit chips, the returned distribution totals
\* exactly startingStack and holds at least one chip of the base unit. Stated
\* for the stacks the selector chooses (the ones the server passes together
\* with a structure) that some assignment within the per-entry caps can make.
C8_ExactWithSmallChips ==
  (Returned /\ PayableInBaseUnits(blindLevels) /\ SelectorStack) =>
    \/ DistTotal(distribution) = targetStack /\ distribution[baseUnit] >= 1
    \/ ~Feasible

levels == gen.levels

\* C9 (P4 monotonic blinds): in every structure generated, and at every point
\* of its generation, each level's big blind is greater than the one before.
C9_MonotonicBlinds ==
  \A i \in 1..(Len(levels) - 1) : levels[i + 1].bb > levels[i].bb

\* a returned structure in which a level was forced one base unit above the
\* previous one because the rounded value did not exceed it
C9_Witness ==
  /\ gpc = "returned"
  /\ Len(levels) >= 3
  /\ \E i \in 1..(Len(levels) - 1) :
       /\ roundToValidBlind(levels[i].bb * increaseRate.num, increaseRate.den) <= levels[i].bb
       /\ levels[i + 1].bb = (levels[i].bb \div baseUnit) * baseUnit + baseUnit

\* C10 (P5 ante activation): the level with 1-based number n has ante 0 when
\* n < bbaStartLevel and ante equal to its big blind when n >= bbaStartLevel.
C10_AnteActivation ==
  \A n \in 1..Len(levels) :
    levels[n].ante = IF n >= bbaStartLevel THEN levels[n].bb ELSE 0

\* a returned structure with levels on both sides of bbaStartLevel
C10_Witness ==
  /\ gpc = "returned"
  /\ bbaStartLevel > 1
  /\ Len(levels) > bbaStartLevel
  /\ levels[bbaStartLevel - 1].bb > 0
  /\ levels[bbaStartLevel].ante > 0

SolverArgs == <<targetStack, numPlayers, maxReentries, blindLevels>>

GenArgs == <<startingStack, speed, startingBlindDepth, blindIncreaseRate, bbaStartLevel>>

\* C11 (P6 determinism): a call that returns, started in whatever state the
\* calls before it left, returns what every earlier call of the same function
\* with the same arguments returned: the same distribution from
\* calculateChipDistribution, the same levels from generateBlindStructure.
C11_Determinism ==
  /\ pc = "done" =>
       \A i \in 1..Len(history) :
         (history[i].fn = "calculateChipDistribution" /\ history[i].args = SolverArgs)
            => history[i].result = distribution
  /\ gpc = "returned" =>
       \A i \in 1..Len(history) :
         (history[i].fn = "generateBlindStructure" /\ history[i].args = GenArgs)
            => history[i].result = levels

\* the solver returns for the second time on the same arguments, with a call on
\* other arguments, and another distribution, in between
C11_Witness ==
  /\ pc = "done"
  /\ Len(history) = 2
  /\ history[1].fn = "calculateChipDistribution"
  /\ history[1].args = SolverArgs
  /\ history[1].result = distribution
  /\ history[2].fn = "calculateChipDistribution"
  /\ history[2].args # SolverArgs
  /\ \E d \in Denoms : history[2].result[d] > 0 /\ distribution[d] = 0

ScenarioC ==
  /\ startingStack = 10000
  /\ startingBlindDepth = 50
  /\ blindIncreaseRate = [num |-> 5, den |-> 4]
  /\ bbaStartLevel = 6

\* C12 (Scenario C): generateBlindStructure(10000, speed, 50, 1.25, 6), for any
\* speed, returns a structure whose level 1 has bb = 200, whose level 5 has
\* ante = 0 and whose level 6 has its ante equal to its bb.
C12_ScenarioC ==
  (gpc = "returned" /\ ScenarioC) =>
    /\ Len(levels) >= 6
    /\ levels[1].bb = 200
    /\ levels[5].ante = 0
    /\ levels[6].ante = levels[6].bb

C12_Witness ==
  /\ gpc = "returned"
  /\ ScenarioC
  /\ speed = "turbo"
  /\ Len(levels) > 6
  /\ levels[6].ante > 0

InvalidRate ==
  blindIncreaseRate = NotANumber \/ blindIncreaseRate.num <= blindIncreaseRate.den

SpeedDefault ==
  IF speed = "turbo" THEN [num |-> 7, den |-> 5]
  ELSE IF speed = "normal" THEN [num |-> 5, den |-> 4]
  ELSE IF speed = "slow" THEN [num |-> 6, den |-> 5]
  ELSE [num |-> 5, den |-> 4]

\* C13 (Scenario D, invalid rate fallback): when blindIncreaseRate is not a
\* number or is <= 1, the rate used is the default of the speed (turbo 1.4,
\* normal 1.25, slow 1.2, any other speed 1.25), which is above 1, and the
\* structure returned is the one returned for that default rate given
\* explicitly; so rate 1.0 with speed 'normal' gives the schedule of rate 1.25.
C13_RateFallback ==
  (gpc # "start" /\ InvalidRate) =>
    /\ increaseRate = SpeedDefault
    /\ increaseRate.num > increaseRate.den
    /\ gpc = "returned" =>
         levels = generateBlindStructure(startingStack, speed, startingBlindDepth,
                                         SpeedDefault, bbaStartLevel)

\* Scenario D itself: stack 10000, rate 1.0, speed 'normal', returned
C13_Witness ==
  /\ gpc = "returned"
  /\ startingStack = 10000
  /\ speed = "normal"
  /\ blindIncreaseRate = [num |-> 1, den |-> 1]
  /\ increaseRate = [num |-> 5, den |-> 4]
  /\ Len(levels) > 6
  /\ levels[1].bb = 200

\* C14 (InvalidConfiguration): a call with maxEntries = players * (reentries + 1)
\* below 1 does not return a stack: it ends with an error.
C14_InvalidConfiguration ==
  (spc # "called" /\ selPlayers * (selReentries + 1) < 1) => spc = "threw"

\* C15 (selector within capacity): for players >= 1 and reentries >= 0 the stack
\* returned is at most the sum over the denominations d of
\* floor(CHIP_SET[d] / maxEntries) * d.
C15_SelectorWithinCapacity ==
  (spc = "returned" /\ selPlayers >= 1) =>
    /\ selStack.finite
    /\ selStack.value <=
         CapFrom(1, [d \in Denoms |-> CHIP_SET[d] \div (selPlayers * (selReentries + 1))])

\* C16 (positive big blind): every level of every structure generated for
\* startingStack > 0 and startingBlindDepth >= 1 has bb > 0, sb >= 0 and
\* ante >= 0, the first level included.
C16_PositiveBigBlind ==
  (startingStack > 0 /\ startingBlindDepth >= 1) =>
    \A n \in 1..Len(levels) :
      levels[n].bb > 0 /\ levels[n].sb >= 0 /\ levels[n].ante >= 0

PassLength == Len(sortedDenomsDesc) + 1

\* an upper bound of the number of steps a call still has to take
Rank ==
  IF pc = "done" THEN 0
  ELSE IF pc = "fill" THEN 1
  ELSE IF pc = "verify" THEN 2
  ELSE IF pc = "grow" THEN 3 + (maxIterations - iterations) * PassLength + (PassLength - denomIdx)
  ELSE 3 + maxIterations * PassLength
         + (IF pc = "reduce" THEN 1 ELSE IF pc = "topup" THEN 2 ELSE IF pc = "seed" THEN 3 ELSE 4)

\* C17 (infeasible targets do not abort): every call of the solver, whatever
\* targetStack >= 0 and maxEntries >= 1, representable within the caps or not,
\* terminates: each step brings it nearer to its return, by a measure that is a
\* natural number because the passes of the grow loop are counted up to
\* maxIterations; and what it returns is a distribution, a count >= 0 for every
\* denomination.
C17_Terminates ==
  [][/\ Rank' < Rank
     /\ Rank' >= 0
     /\ pc' = "done" => \A d \in Denoms : distribution'[d] >= 0]_vars

\* returned after grow passes, for a target that no distribution within the
\* caps sums to; the sum differs from the target
C17_Witness ==
  /\ Returned
  /\ ~Feasible
  /\ iterations > 1
  /\ DistTotal(distribution) # targetStack

\* C18 (CapacityExhaustion clamp): a denomination whose liquidity floor is
\* greater than or equal to its ceiling floor(CHIP_SET[d] / maxEntries) holds
\* exactly the ceiling from the seeding on, through every later phase and in the
\* returned distribution.
C18_CapacityClamp ==
  pc \notin {"start", "seed"} =>
    \A d \in Denoms :
      minChipsForBlinds[d] >= CHIP_SET[d] \div (numPlayers * (maxReentries + 1))
        => distribution[d] = CHIP_SET[d] \div (numPlayers * (maxReentries + 1))

\* returned after a reduce phase: the base unit is clamped at a ceiling above 0
\* while another denomination went below its ceiling
C18_Witness ==
  /\ Returned
  /\ DistTotal(SeedDistribution(perEntryCap)) > targetStack
  /\ perEntryCap[baseUnit] > 0
  /\ minChipsForBlinds[baseUnit] >= perEntryCap[baseUnit]
  /\ distribution[baseUnit] = perEntryCap[baseUnit]
  /\ \E d \in Denoms : distribution[d] < perEntryCap[d]

\* C19 (bounded level generation): the structure under generation, and so the
\* one returned, never has more than 500 levels, also for a rate barely above 1.
C19_BoundedLevels == Len(levels) <= 500

\* C20 (reserve-for-flexibility in the reduce phase): when the seeded total
\* exceeds targetStack, every denomination that holds at least one chip before
\* the reduce phase holds at least one chip after it. Stated for the targets
\* that leave room for one chip of every denomination held.
C20_ReserveForFlexibility ==
  [][(/\ pc = "reduce"
      /\ gap < 0
      /\ targetStack >= SumOver(Denoms, [d \in Denoms |-> IF distribution[d] >= 1 THEN 1 ELSE 0]))
       => \A d \in Denoms : distribution[d] >= 1 => distribution'[d] >= 1]_vars

PassEnds == pc = "grow" /\ (denomIdx > Len(sortedDenomsDesc) \/ gap <= 0)

\* C21 (monotonic progress in the grow phase): the gap at the end of a pass of
\* the grow loop is never larger than the gap the pass began with; a pass
\* either ends with a strictly smaller gap, or it has changed nothing and the
\* loop ends.
C21_MonotonicProgress ==
  [][PassEnds =>
       /\ gap' <= gapBefore
       /\ gap' < gapBefore \/ (~madeProgress' /\ pc' = "verify")]_vars

\* C22 (exact swap): right after a step of the grow pass that swaps (adds one
\* chip worth more than the gap and removes smaller chips), the running total
\* equals targetStack: the value removed is the overshoot exactly.
C22_ExactSwap == lastMove = "swap" => totalDistributed = targetStack

\* the count of denomination d that the levels inspected need: the largest the
\* decomposition gives, over the first 12 levels and over sb, bb and ante
NeededCount(lv, d) ==
  SetMax({0} \cup { calculateMinChipsForAmount(a)[d] :
                      a \in UNION { {lv[i].sb, lv[i].bb, lv[i].ante} : i \in 1..Min(12, Len(lv)) } })

\* C23 (minimum-liquidity estimate): for each denomination the result of
\* calculateMinChipsForBlinds is the largest count that the decomposition of
\* an sb, bb or ante of the first 12 levels gives it, times 6 when the
\* denomination is at most 100; later levels play no part and a null or empty
\* structure gives no floor.
C23_MinimumLiquidity ==
  (epc = "returned" /\ estInput.kind = "blinds") =>
    \A d \in Denoms :
      estResult[d] = IF d <= 100 THEN NeededCount(estInput.levels, d) * 6
                     ELSE NeededCount(estInput.levels, d)

\* a structure of more than 12 levels whose 13th would need more base-unit
\* chips than the floor returned
C23_Witness ==
  /\ epc = "returned"
  /\ estInput.kind = "blinds"
  /\ Len(estInput.levels) > 12
  /\ estResult[baseUnit] > 0
  /\ (estInput.levels[13].bb \div baseUnit) * 6 > estResult[baseUnit]

\* C24 (greedy decomposition covers the amount): calculateMinChipsForAmount
\* returns no chips for an amount <= 0; amount / baseUnit chips of the base
\* unit and nothing else for a positive multiple of the base unit; for any
\* other positive amount chips worth at least the amount and less than the
\* amount plus one base unit.
C24_GreedyCovers ==
  (epc = "returned" /\ estInput.kind = "amount") =>
    IF estInput.amount <= 0 THEN estResult = NoChips
    ELSE IF estInput.amount % baseUnit = 0
    THEN estResult = [d \in Denoms |-> IF d = baseUnit THEN estInput.amount \div baseUnit ELSE 0]
    ELSE /\ DistTotal(estResult) >= estInput.amount
         /\ DistTotal(estResult) < estInput.amount + baseUnit

\* an amount above the base unit that is not a multiple of it
C24_Witness ==
  /\ epc = "returned"
  /\ estInput.kind = "amount"
  /\ estInput.amount > baseUnit
  /\ estInput.amount % baseUnit # 0
  /\ estResult[baseUnit] >= 2

\* C25 (chip-payable blinds): every sb, bb and ante of every structure
\* generated for startingStack > 0 and startingBlindDepth >= 1 is a non-negative
\* multiple of the base unit, the levels raised by the forced increase included.
C25_ChipPayable ==
  (startingStack > 0 /\ startingBlindDepth >= 1) =>
    \A n \in 1..Len(levels) :
      /\ levels[n].sb >= 0 /\ levels[n].sb % baseUnit = 0
      /\ levels[n].bb >= 0 /\ levels[n].bb % baseUnit = 0
      /\ levels[n].ante >= 0 /\ levels[n].ante % baseUnit = 0

\* a returned structure with a level raised by the forced increase and a small
\* blind that is not half the big blind
C25_Witness ==
  /\ gpc = "returned"
  /\ \E i \in 1..(Len(levels) - 1) :
       /\ levels[i].bb > 0
       /\ levels[i + 1].bb = levels[i].bb + baseUnit
       /\ 2 * levels[i + 1].sb # levels[i + 1].bb

\* C26 (no overshoot): for every targetStack >= 0 and at least one entry, the
\* returned distribution sums to at most targetStack.
C26_NoOvershoot ==
  (Returned /\ targetStack >= 0 /\ numPlayers * (maxReentries + 1) >= 1) =>
    DistTotal(distribution) <= targetStack

\* the sum of the per-entry ceilings
CapacityTotal == DistTotal(perEntryCap)

C28_EntryLimit ==
  \A n \in PlayerNames :
    /\ Len(entries[n]) <= tournament.max_reentries + 1
    /\ \A i, j \in 1..Len(entries[n]) : entries[n][i] = entries[n][j] => i = j

\* C29 (single automatic advance): concurrent GET handlers increment
\* current_level once for the expiry of a level; no two handlers have both
\* passed the elapsed-time check for the same level with the UPDATE
\* `current_level = current_level + 1` still to apply.
C29_SingleAdvance ==
  \A p, q \in Pollers :
    (/\ getReq[p].pc = "advance"
     /\ getReq[q].pc = "advance"
     /\ getReq[p].tournament.current_level = getReq[q].tournament.current_level) => p = q

\* C30 (current level inside the schedule): after any sequence of start, pause,
\* resume, automatic advance and manual next-level, current_level is between 1
\* and the number of generated levels, and the blind reported is the one of
\* that level.
C30_LevelInSchedule ==
  /\ tournament.current_level >= 1
  /\ tournament.current_level <= Len(structureLevels(tournament))
  /\ currentBlind(tournament) = structureLevels(tournament)[tournament.current_level]

====
